---- MODULE Spec2Model ----
(***************************************************************************)
(* The RPC client multiplexer of ironfish: IronfishRpcClient (rpcClient.ts, *)
(* kept as src/unnamed/part_000) and its TCP transport IronfishTcpClient    *)
(* (src/ironfish/src/rpc/clients/tcpClient.ts).                             *)
(*                                                                         *)
(* Every handler runs to completion on the single JavaScript thread and is  *)
(* one action.  An async handler is cut at each `await`: the part up to the *)
(* await is one action, and the suspended continuation is kept in `tasks`   *)
(* until a later action resumes it.  The awaited promises come from         *)
(* YupUtils.tryValidate, whose latency the client does not control, so      *)
(* suspended continuations resume in any order.                             *)
(***************************************************************************)
EXTENDS Integers, Sequences, FiniteSets, TLC

VARIABLES
  connectionMode, \* 'tcp' (tcpClient.ts:33) or 'ipc' (the node-ipc transport)
  client,         \* this.client: "null", or the socket / ipc handle
  isConnected,    \* this.isConnected
  listeners,      \* event names that have a handler attached on this.client
  messageIds,     \* this.messageIds
  pending,        \* this.pending: message id -> pending record
  reqs,           \* per request() call, by message id: the Response, Stream, timer
  wire,           \* bytes written by the peer and not yet read by the socket
  sent,           \* the writes of send(), each with the table's keys at that moment
  peerSeq,        \* number of envelopes the peer has sent
  streamed,       \* per message id, the stream data the peer sent while it was pending
  tasks,          \* suspended async handlers (onData, handleEnd, handleStream)
  ignored,        \* the envelope the latest handler dropped for want of a pending record
  errors,         \* errors the latest handler reported (logger.error / onError.emit)
  closeEmits,     \* number of onClose.emit() calls
  connects,       \* number of successful connects so far
  connecting,     \* the connect() or tryConnect() call in flight, or "none"
  returned,       \* what the latest connect() or tryConnect() call came to
  reads,          \* history: the chunks the socket has read, in order
  dispatched      \* history: data of the envelopes onData has routed, in order

\* The program's state, and the history kept beside it.
state == <<connectionMode, client, isConnected, listeners, messageIds, pending,
           reqs, wire, sent, peerSeq, streamed, tasks, ignored, errors, closeEmits,
           connects>>
history == <<reads, dispatched>>
calls == <<connecting, returned>>
vars == <<state, history, calls>>

\* ---------------------------------------------------------------- bounds
MaxRequests == 2
MaxFrames == 2
MaxConnects == 2

\* ---------------------------------------------------------------- values
Undefined == "undefined"
Null == "null"
REQUEST_TIMEOUT_MS == Null
\* The request() calls made: <<route, data, options.timeoutMs>>, the timeout
\* being absent, null, or a number of milliseconds.
RequestInputs == {<<"r1", "p1", Undefined>>, <<"r1", "p2", Null>>, <<"r2", "p1", "50">>}

NODE_IPC_DELIMITER == "\\f"

\* An envelope as the peer builds it.  `data` is the payload the envelope
\* carries: the peer numbers its envelopes, so each payload is distinct.
\*   type   : the TcpResponse type; "bogus" is a type outside the schema's
\*            oneOf, "junk" is text that is not JSON at all
\*   id     : the payload's id; 0 stands for a payload without a valid id
\*   status : the payload's status (message envelopes)
\*   body   : for an error status, what validating data as an IpcError body
\*            gives: "error" a body, "invalid" a validation error, "none" neither
NoEnv == [type |-> "none", id |-> 0, status |-> 0, body |-> "none", data |-> 0]

Envelope(type, id, status, body, k) ==
  [type |-> type, id |-> id, status |-> status, body |-> body, data |-> k]

MessageEnvelopes(k) ==
  {Envelope("message", id, 200, "value", k) : id \in 0..MaxRequests}
  \cup {Envelope("message", id, 400, b, k) :
          id \in 1..MaxRequests, b \in {"error", "invalid", "none"}}

StreamEnvelopes(k) == {Envelope("stream", id, 0, "value", k) : id \in 0..MaxRequests}

NoticeEnvelopes(k) ==
  {Envelope(t, 0, 0, "value", k) : t \in {"error", "malformedRequest"}}

\* What node-ipc hands to the handlers of onConnect (already framed and typed).
IpcEnvelopes(k) == MessageEnvelopes(k) \cup StreamEnvelopes(k) \cup NoticeEnvelopes(k)

\* What a TCP peer puts on the wire: the envelopes for the ids of requests,
\* the notices, and frames that do not decode.
TcpEnvelopes(k) ==
  {e \in MessageEnvelopes(k) \cup StreamEnvelopes(k) :
     e.id >= 1 /\ e.body \in {"value", "error"}}
  \cup NoticeEnvelopes(k)
  \cup {Envelope(t, 0, 0, "value", k) : t \in {"bogus", "junk"}}

\* ---------------------------------------------------------------- bytes
\* A byte of the stream: the delimiter, or one of the two halves of the JSON
\* text of an envelope, or a byte of text that is not JSON.
Byte(ch, e) == [ch |-> ch, env |-> e]
Delimiter == Byte(NODE_IPC_DELIMITER, NoEnv)

JSONstringify(e) == <<Byte("head", e), Byte("tail", e)>>

\* The text of one frame as the peer writes it, delimiter included.
FrameText(e) ==
  (IF e.type = "junk" THEN <<Byte("junk", e)>> ELSE JSONstringify(e)) \o <<Delimiter>>

IsWhitespace(b) == b.ch = NODE_IPC_DELIMITER

RECURSIVE TrimStart(_)
TrimStart(s) ==
  IF s # <<>> /\ IsWhitespace(Head(s)) THEN TrimStart(Tail(s)) ELSE s

RECURSIVE TrimEnd(_)
TrimEnd(s) ==
  IF s # <<>> /\ IsWhitespace(s[Len(s)]) THEN TrimEnd(SubSeq(s, 1, Len(s) - 1)) ELSE s

\* String.prototype.trim: the form feed is white space.
Trim(s) == TrimEnd(TrimStart(s))

RECURSIVE Split(_)
\* String.prototype.split(NODE_IPC_DELIMITER): "" splits into [""].
Split(s) ==
  LET at == {i \in 1..Len(s) : s[i] = Delimiter} IN
  IF at = {} THEN <<s>>
  ELSE LET i == CHOOSE j \in at : \A m \in at : j <= m IN
       <<SubSeq(s, 1, i - 1)>> \o Split(SubSeq(s, i + 1, Len(s)))

\* JSON.parse: succeeds on the complete text of one envelope and on nothing else.
JSONparses(text) ==
  /\ Len(text) = 2
  /\ text[1].ch = "head"
  /\ text[2].ch = "tail"
  /\ text[1].env = text[2].env

JSONparse(text) == text[1].env

\* ---------------------------------------------------------------- schemas
TcpResponseValid(e) == e.type \in {"message", "malformedRequest", "error", "stream"}
IpcResponseValid(e) == e.id >= 1
IpcStreamValid(e) == e.id >= 1
IpcErrorValid(e) == e.body = "error"
IpcErrorFails(e) == e.body = "invalid"
isResponseError(status) == status >= 400 /\ status <= 599

\* ---------------------------------------------------------------- state
\* The outcome of a Response's promise.  `by` is the envelope whose handler
\* settled it (NoEnv for a timeout or a disconnect).
Unsettled == [state |-> "pending", kind |-> "none", route |-> "none", ms |-> Null,
              data |-> 0, by |-> NoEnv]

Resolved(data, by) ==
  [state |-> "resolved", kind |-> "value", route |-> "none", ms |-> Null,
   data |-> data, by |-> by]

Rejected(kind, route, ms, data, by) ==
  [state |-> "rejected", kind |-> kind, route |-> route, ms |-> ms,
   data |-> data, by |-> by]

\* Mutant: the entry stays in the table.
Keep(p, id) == p

\* this.pending.delete(messageId)
Remove(p, id) == [k \in DOMAIN p \ {id} |-> p[k]]

\* No connect() or tryConnect() call has completed.
NoReturn == [call |-> "none", socket |-> "none", connect |-> "none", outcome |-> "none"]

\* The state after construction, for the transport of the given mode.
Constructed(mode) ==
  /\ connectionMode = mode
  /\ client = IF mode = "tcp" THEN "socket" ELSE "null"
  /\ isConnected = FALSE
  /\ listeners = {}
  /\ messageIds = 0
  /\ pending = <<>>
  /\ reqs = <<>>
  /\ wire = <<>>
  /\ sent = <<>>
  /\ peerSeq = 0
  /\ streamed = [id \in 1..MaxRequests |-> <<>>]
  /\ tasks = {}
  /\ ignored = {}
  /\ errors = 0
  /\ closeEmits = 0
  /\ connects = 0
  /\ connecting = "none"
  /\ returned = NoReturn
  /\ reads = <<>>
  /\ dispatched = <<>>

\* ---------------------------------------------------------------- request()
\* A settled promise keeps its first outcome (PromiseUtils.split).
PromiseSettle(cur, o) == IF cur.state = "pending" THEN o ELSE cur

\* st is the pair of this.pending and the requests; both closures of request()
\* delete the pending entry, clear the timer, close the stream and settle.
resolveRequest(st, id, o) ==
  [pending |-> Remove(st.pending, id),
   reqs |-> [st.reqs EXCEPT ![id] =
               [@ EXCEPT !.timer = IF @ = "armed" THEN "cleared" ELSE @,
                         !.closed = TRUE,
                         !.settles = @ + 1,
                         !.outcome = PromiseSettle(@, o)]]]

rejectRequest(st, id, o) ==
  [pending |-> Remove(st.pending, id),
   reqs |-> [st.reqs EXCEPT ![id] =
               [@ EXCEPT !.timer = IF @ = "armed" THEN "cleared" ELSE @,
                         !.closed = TRUE,
                         !.settles = @ + 1,
                         !.outcome = PromiseSettle(@, o)]]]

State == [pending |-> pending, reqs |-> reqs]

\* Mutant: the timeout given with the call is not looked at.
ClientTimeout(opt) == REQUEST_TIMEOUT_MS

\* options.timeoutMs === undefined ? this.timeoutMs : options.timeoutMs
EffectiveTimeout(opt) == IF opt = Undefined THEN REQUEST_TIMEOUT_MS ELSE opt

\* The message send() builds.
Message(messageId, route, data) ==
  [type |-> "message", data |-> [mid |-> messageId, type |-> route, data |-> data]]

\* Mutant: the frame carries no message id.
sendUnkeyed(table, messageId, route, data) ==
  [text |-> JSONstringify(Message(0, route, data)) \o <<Delimiter>>,
   pending |-> DOMAIN table]

\* IronfishTcpClient.send: one write of the message's JSON text and the
\* delimiter, made while this.pending is `table`.
send(table, messageId, route, data) ==
  [text |-> JSONstringify(Message(messageId, route, data)) \o <<Delimiter>>,
   pending |-> DOMAIN table]

\* Mutant: the counter starts again for every call.
RestartedMessageId(n) == 1

\* ++this.messageIds
NextMessageId(n) == n + 1

Request(route, data, opt) ==
  LET messageId == NextMessageId(messageIds)
      timeoutMs == EffectiveTimeout(opt)
  IN
  /\ client # "null"
  /\ messageIds < MaxRequests
  /\ messageIds' = messageId
  /\ reqs' = Append(reqs,
       [id |-> messageId, route |-> route, data |-> data, options |-> opt,
        timeoutMs |-> timeoutMs,
        timer |-> IF timeoutMs # Null THEN "armed" ELSE "none",
        values |-> <<>>, closed |-> FALSE, status |-> 0, settles |-> 0,
        connected |-> isConnected, outcome |-> Unsettled])
  /\ pending' = pending @@ (messageId :> [type |-> route, timeout |-> timeoutMs # Null])
  /\ sent' = IF connectionMode = "tcp"
             THEN Append(sent, send(pending', messageId, route, data))
             ELSE sent
  /\ errors' = 0
  /\ ignored' = {}
  /\ UNCHANGED <<connectionMode, client, isConnected, listeners, wire, peerSeq,
                 streamed, tasks, closeEmits, connects>>

\* Mutant: the error carries the client's default timeout, not the request's.
RequestTimeoutErrorDefault(r) ==
  Rejected("RequestTimeoutError", r.route, REQUEST_TIMEOUT_MS, 0, NoEnv)

\* new RequestTimeoutError(response, timeoutMs, route)
RequestTimeoutError(r) == Rejected("RequestTimeoutError", r.route, r.timeoutMs, 0, NoEnv)

\* The setTimeout callback of request().
OnTimeout(id) ==
  /\ id \in 1..messageIds
  /\ reqs[id].timer = "armed"
  /\ LET fired == [State EXCEPT !.reqs[id].timer = "fired"]
         st == IF id \in DOMAIN pending
               THEN rejectRequest(fired, id, RequestTimeoutError(reqs[id]))
               ELSE fired
     IN /\ pending' = st.pending
        /\ reqs' = st.reqs
  /\ errors' = 0
  /\ ignored' = {}
  /\ UNCHANGED <<connectionMode, sent, client, isConnected, listeners, messageIds, wire,
                 peerSeq, streamed, tasks, closeEmits, connects>>

\* ---------------------------------------------------------------- handlers
Task(kind, e, rest) == [kind |-> kind, env |-> e, rest |-> rest]

\* Mutant: the lookup finds every request ever made, settled or not.
HasRequest(id) == id \in 1..messageIds

\* this.pending.get(id) finds a record.
HasPending(id) == id \in DOMAIN pending

\* Mutant: the lookup takes the latest request, whatever id the envelope has.
LatestId(e) == messageIds

\* The key handleEnd and handleStream look up: result.id.
ResultId(e) == e.id

\* What became of the request an ignored envelope names.
Fate(id) == IF id \in 1..messageIds THEN reqs[id].outcome.kind ELSE "unissued"

\* Mutant: a payload that fails validation is handled like any other.
NeverThrows(valid) == FALSE

\* if (!result) { throw error }
Throws(valid) == ~valid

\* handleStream, resumed after its await.
HandleStream(t) ==
  /\ t \in tasks
  /\ t.kind = "handleStream"
  /\ tasks' = tasks \ {t}
  /\ IF Throws(IpcStreamValid(t.env))
     THEN /\ errors' = 1
          /\ ignored' = {}
          /\ UNCHANGED <<pending, reqs>>
     ELSE IF ~HasPending(ResultId(t.env))
     THEN /\ errors' = 0
          /\ ignored' = {[env |-> t.env, fate |-> Fate(ResultId(t.env))]}
          /\ UNCHANGED <<pending, reqs>>
     ELSE /\ errors' = 0
          /\ reqs' = [reqs EXCEPT ![ResultId(t.env)].values = Append(@, t.env.data)]
          /\ ignored' = {}
          /\ UNCHANGED <<pending>>
  /\ UNCHANGED <<connectionMode, sent, client, isConnected, listeners, messageIds, wire,
                 peerSeq, streamed, closeEmits, connects>>

\* handleEnd, resumed after its first await.
HandleEnd(t) ==
  /\ t \in tasks
  /\ t.kind = "handleEnd"
  /\ IF Throws(IpcResponseValid(t.env))
     THEN /\ errors' = 1
          /\ tasks' = tasks \ {t}
          /\ ignored' = {}
          /\ UNCHANGED <<pending, reqs>>
     ELSE IF ~HasPending(ResultId(t.env))
     THEN /\ tasks' = tasks \ {t}
          /\ errors' = 0
          /\ ignored' = {[env |-> t.env, fate |-> Fate(ResultId(t.env))]}
          /\ UNCHANGED <<pending, reqs>>
     ELSE IF isResponseError(t.env.status)
     THEN /\ tasks' = (tasks \ {t}) \cup {Task("handleEndError", t.env, <<>>)}
          /\ reqs' = [reqs EXCEPT ![ResultId(t.env)].status = t.env.status]
          /\ errors' = 0
          /\ ignored' = {}
          /\ UNCHANGED <<pending>>
     ELSE LET st == resolveRequest(
                      [State EXCEPT !.reqs[ResultId(t.env)].status = t.env.status],
                      ResultId(t.env), Resolved(t.env.data, t.env))
          IN /\ tasks' = tasks \ {t}
             /\ pending' = st.pending
             /\ reqs' = st.reqs
             /\ errors' = 0
             /\ ignored' = {}
  /\ UNCHANGED <<connectionMode, sent, client, isConnected, listeners, messageIds, wire,
                 peerSeq, streamed, closeEmits, connects>>

\* Mutant: the error does not carry the body.
RequestErrorWithoutBody(r, e) == Rejected("RequestError", r.route, Null, 0, e)

\* new RequestError(pending.response, errorBody.code, errorBody.message,
\* errorBody.stack): data stands for the body's code, message and stack.
RequestError(r, e) == Rejected("RequestError", r.route, Null, e.data, e)

\* handleEnd, resumed after validating the error body: it rejects through the
\* pending record it looked up before the await.
HandleEndError(t) ==
  /\ t \in tasks
  /\ t.kind = "handleEndError"
  /\ tasks' = tasks \ {t}
  /\ LET id == ResultId(t.env)
         o == IF IpcErrorValid(t.env)
              THEN RequestError(reqs[id], t.env)
              ELSE IF IpcErrorFails(t.env)
              THEN Rejected("ValidationError", reqs[id].route, Null, 0, t.env)
              ELSE Rejected("raw", reqs[id].route, Null, t.env.data, t.env)
         st == rejectRequest(State, id, o)
     IN /\ pending' = st.pending
        /\ reqs' = st.reqs
  /\ errors' = 0
  /\ ignored' = {}
  /\ UNCHANGED <<connectionMode, sent, client, isConnected, listeners, messageIds, wire,
                 peerSeq, streamed, closeEmits, connects>>

\* ---------------------------------------------------------------- base client
\* The handlers IronfishRpcClient.onConnect attaches to this.client.
RpcEvents == {"disconnect", "message", "malformedRequest", "stream", "error"}

\* new ConnectionLostError(request.type)
ConnectionLostError(type) == Rejected("ConnectionLostError", type, Null, 0, NoEnv)

\* Mutant: the loop stops after the first pending request.
RejectFirst(st, ids) ==
  IF ids = {} THEN st
  ELSE LET id == CHOOSE i \in ids : \A j \in ids : i <= j IN
       rejectRequest(st, id, ConnectionLostError(st.pending[id].type))

RECURSIVE RejectAll(_, _)
\* The loop of onDisconnect over this.pending.values(), in insertion order.
RejectAll(st, ids) ==
  IF ids = {} THEN st
  ELSE LET id == CHOOSE i \in ids : \A j \in ids : i <= j IN
       RejectAll(rejectRequest(st, id,
                   ConnectionLostError(st.pending[id].type)),
                 ids \ {id})

\* this.client emits 'disconnect'.
OnDisconnect ==
  /\ "disconnect" \in listeners
  /\ client # "null"
  /\ isConnected' = FALSE
  /\ listeners' = listeners \ RpcEvents
  /\ LET st == RejectAll(State, DOMAIN pending)
     IN /\ reqs' = st.reqs
        /\ pending' = <<>>
  /\ closeEmits' = closeEmits + 1
  /\ errors' = 0
  /\ ignored' = {}
  /\ UNCHANGED <<connectionMode, sent, client, messageIds, wire, peerSeq, tasks, connects,
                 streamed>>

\* The peer's record of the stream envelopes it sends for a request in flight.
Streamed(e) ==
  IF e.type = "stream" /\ e.id \in DOMAIN pending
  THEN [streamed EXCEPT ![e.id] = Append(@, e.data)]
  ELSE streamed

\* The node-ipc transport connects and calls IronfishRpcClient.onConnect.
IpcConnect ==
  /\ connectionMode = "ipc"
  /\ ~isConnected
  /\ connects < MaxConnects
  /\ connects' = connects + 1
  /\ client' = "ipc"
  /\ isConnected' = TRUE
  /\ listeners' = listeners \cup RpcEvents
  /\ errors' = 0
  /\ ignored' = {}
  /\ UNCHANGED <<connectionMode, sent, messageIds, pending, reqs, wire, peerSeq, tasks,
                 closeEmits, streamed>>

\* this.client emits 'message', 'stream', 'malformedRequest' or 'error' with the
\* envelope's data: onMessage, onStream, onMalformedRequest, onClientError.
IpcEmit(e) ==
  /\ connectionMode = "ipc"
  /\ e.type \in listeners
  /\ peerSeq < MaxFrames
  /\ peerSeq' = peerSeq + 1
  /\ streamed' = Streamed(e)
  /\ IF e.type = "message"
     THEN /\ tasks' = tasks \cup {Task("handleEnd", e, <<>>)}
          /\ errors' = 0
     ELSE IF e.type = "stream"
     THEN /\ tasks' = tasks \cup {Task("handleStream", e, <<>>)}
          /\ errors' = 0
     ELSE /\ tasks' = tasks
          /\ errors' = 1
  /\ ignored' = {}
  /\ UNCHANGED <<connectionMode, sent, client, isConnected, listeners, messageIds, pending,
                 reqs, wire, closeEmits, connects>>

\* ---------------------------------------------------------------- TCP client
\* connect() succeeds: the socket emits 'connect', the listeners of connect()
\* are removed and onConnect runs.
TcpConnect ==
  /\ connectionMode = "tcp"
  /\ ~isConnected
  /\ connects < MaxConnects
  /\ connects' = connects + 1
  /\ isConnected' = TRUE
  /\ listeners' = (listeners \ {"connect", "error"}) \cup {"data", "close"}
  /\ errors' = 0
  /\ ignored' = {}
  /\ UNCHANGED <<connectionMode, sent, client, messageIds, pending, reqs, wire, peerSeq,
                 tasks, closeEmits, streamed>>

\* The peer writes one frame.
PeerWrite(e) ==
  /\ connectionMode = "tcp"
  /\ isConnected
  /\ peerSeq < MaxFrames
  /\ peerSeq' = peerSeq + 1
  /\ streamed' = Streamed(e)
  /\ wire' = wire \o FrameText(e)
  /\ errors' = 0
  /\ ignored' = {}
  /\ UNCHANGED <<connectionMode, sent, client, isConnected, listeners, messageIds, pending,
                 reqs, tasks, closeEmits, connects>>

\* One turn of the loop of onData over the remaining events, up to its await:
\* JSON.parse of the next event throws, or its validation is awaited.
LoopTurn(events) ==
  IF events = <<>> THEN [tasks |-> {}, errors |-> 0]
  ELSE IF JSONparses(Head(events))
  THEN [tasks |-> {Task("onData", JSONparse(Head(events)), Tail(events))}, errors |-> 0]
  ELSE [tasks |-> {}, errors |-> 1]

\* The socket emits 'data' with the next n bytes: onClientData, onData up to
\* its first await.
OnClientData(n) ==
  /\ "data" \in listeners
  /\ n \in 1..Len(wire)
  /\ wire' = SubSeq(wire, n + 1, Len(wire))
  /\ LET events == Split(Trim(SubSeq(wire, 1, n)))
         turn == LoopTurn(events)
     IN /\ tasks' = tasks \cup turn.tasks
        /\ errors' = turn.errors
  /\ ignored' = {}
  /\ UNCHANGED <<connectionMode, sent, client, isConnected, listeners, messageIds, pending,
                 reqs, peerSeq, closeEmits, connects, streamed>>

\* EventEmitter.emit('error') throws when no 'error' handler is attached.
EmitThrows(type) == type = "error" /\ "error" \notin listeners

\* onData, resumed after the await of the envelope's validation: the switch,
\* this.client.emit, and the next turn of the loop.
OnData(t) ==
  /\ t \in tasks
  /\ t.kind = "onData"
  /\ IF ~TcpResponseValid(t.env)
     THEN /\ tasks' = tasks \ {t}
          /\ errors' = 1
     ELSE LET spawned == IF t.env.type = "message" THEN {Task("handleEnd", t.env, <<>>)}
                         ELSE IF t.env.type = "stream"
                         THEN {Task("handleStream", t.env, <<>>)}
                         ELSE {}
              logged == IF t.env.type \in {"error", "malformedRequest"} THEN 1 ELSE 0
              turn == IF EmitThrows(t.env.type)
                      THEN [tasks |-> {}, errors |-> 1]
                      ELSE LoopTurn(t.rest)
          IN /\ tasks' = ((tasks \ {t}) \cup spawned) \cup turn.tasks
             /\ errors' = logged + turn.errors
  /\ ignored' = {}
  /\ UNCHANGED <<connectionMode, sent, client, isConnected, listeners, messageIds, pending,
                 reqs, wire, peerSeq, closeEmits, connects, streamed>>

\* The socket emits 'close'.
OnClientClose ==
  /\ "close" \in listeners
  /\ isConnected' = FALSE
  /\ listeners' = listeners \ {"data", "close"}
  /\ wire' = <<>>
  /\ errors' = 0
  /\ ignored' = {}
  /\ UNCHANGED <<connectionMode, sent, client, messageIds, pending, reqs, peerSeq, tasks,
                 closeEmits, connects, streamed>>

\* ---------------------------------------------------------------- connect()
\* What the socket reports when a connection attempt fails: the error codes.
SocketErrors == {"ECONNREFUSED", "ENOENT", "ETIMEDOUT"}

isConnectRefusedError(error) == error = "ECONNREFUSED"
isNoEntityError(error) == error = "ENOENT"

\* Mutant: only a refused connection becomes a ConnectionRefusedError.
ConnectRejectionRefusedOnly(error) ==
  IF isConnectRefusedError(error) THEN "ConnectionRefusedError" ELSE error

\* What connect() rejects with when the socket reports `error`.
ConnectRejection(error) ==
  IF isConnectRefusedError(error) THEN "ConnectionRefusedError"
  ELSE IF isNoEntityError(error) THEN "ConnectionRefusedError"
  ELSE error

\* e instanceof ConnectionError
IsConnectionError(e) == e = "ConnectionRefusedError"

\* What the call `api` comes to when connect() settles with `settled`, which is
\* "resolved" or the error it rejects with: tryConnect's then and catch.
Outcome(api, settled) ==
  IF api = "connect" THEN (IF settled = "resolved" THEN "resolved" ELSE "rejected")
  ELSE IF settled = "resolved" THEN "true"
  ELSE IF IsConnectionError(settled) THEN "false"
  ELSE "thrown"

Return(api, socket, settled) ==
  [call |-> api, socket |-> socket, connect |-> settled, outcome |-> Outcome(api, settled)]

\* connect(), or tryConnect() calling it, up to this.client.connect(port, host).
Connect(api) ==
  /\ connectionMode = "tcp"
  /\ connecting = "none"
  /\ ~isConnected
  /\ connecting' = api
  /\ returned' = NoReturn
  /\ listeners' = listeners \cup {"error", "connect"}
  /\ errors' = 0
  /\ ignored' = {}
  /\ UNCHANGED <<connectionMode, sent, client, isConnected, messageIds, pending, reqs, wire,
                 peerSeq, streamed, tasks, closeEmits, connects>>

\* The socket emits 'connect' to the onConnect listener of connect().
OnConnected ==
  /\ connecting # "none"
  /\ "connect" \in listeners
  /\ TcpConnect
  /\ connecting' = "none"
  /\ returned' = Return(connecting, "connect", "resolved")

\* The socket emits 'error' to the onError listener of connect().
OnConnectError(error) ==
  /\ connecting # "none"
  /\ "error" \in listeners
  /\ listeners' = listeners \ {"connect", "error"}
  /\ connecting' = "none"
  /\ returned' = Return(connecting, error, ConnectRejection(error))
  /\ errors' = 0
  /\ ignored' = {}
  /\ UNCHANGED <<connectionMode, sent, client, isConnected, messageIds, pending, reqs, wire,
                 peerSeq, streamed, tasks, closeEmits, connects>>

\* ---------------------------------------------------------------- specifications
\* The request multiplexer over the node-ipc transport, which delivers typed
\* envelopes as events.
Init == Constructed("ipc")

Next ==
  \/ \E call \in RequestInputs : Request(call[1], call[2], call[3]) /\ UNCHANGED <<history, calls>>
  \/ \E id \in 1..MaxRequests : OnTimeout(id) /\ UNCHANGED <<history, calls>>
  \/ \E t \in tasks : HandleStream(t) /\ UNCHANGED <<history, calls>>
  \/ \E t \in tasks : HandleEnd(t) /\ UNCHANGED <<history, calls>>
  \/ \E t \in tasks : HandleEndError(t) /\ UNCHANGED <<history, calls>>
  \/ OnDisconnect /\ UNCHANGED <<history, calls>>
  \/ IpcConnect /\ UNCHANGED <<history, calls>>
  \/ \E e \in IpcEnvelopes(peerSeq + 1) : IpcEmit(e) /\ UNCHANGED <<history, calls>>

Spec == Init /\ [][Next]_vars

\* The request multiplexer over the TCP transport.
InitTcp == Constructed("tcp")

NextTcp ==
  \/ \E call \in RequestInputs : Request(call[1], call[2], call[3]) /\ UNCHANGED <<history, calls>>
  \/ \E id \in 1..MaxRequests : OnTimeout(id) /\ UNCHANGED <<history, calls>>
  \/ \E t \in tasks : HandleStream(t) /\ UNCHANGED <<history, calls>>
  \/ \E t \in tasks : HandleEnd(t) /\ UNCHANGED <<history, calls>>
  \/ \E t \in tasks : HandleEndError(t) /\ UNCHANGED <<history, calls>>
  \/ TcpConnect /\ UNCHANGED <<history, calls>>
  \/ \E e \in TcpEnvelopes(peerSeq + 1) : PeerWrite(e) /\ UNCHANGED <<history, calls>>
  \/ \E n \in 1..Len(wire) : OnClientData(n) /\ UNCHANGED <<history, calls>>
  \/ \E t \in tasks : OnData(t) /\ UNCHANGED <<history, calls>>
  \/ OnClientClose /\ UNCHANGED <<history, calls>>

SpecTcp == InitTcp /\ [][NextTcp]_vars

\* The data of the envelope a resumed onData routes through its switch.
Routed(t) == IF TcpResponseValid(t.env) THEN <<t.env.data>> ELSE <<>>

\* The framing of the TCP transport alone, with the history of what was read
\* and what was dispatched.  No request is made, so every envelope is ignored
\* by the multiplexer.

NextFraming ==
  \/ TcpConnect /\ UNCHANGED <<history, calls>>
  \/ \E e \in TcpEnvelopes(peerSeq + 1) : PeerWrite(e) /\ UNCHANGED <<history, calls>>
  \/ \E n \in 1..Len(wire) :
       /\ OnClientData(n)
       /\ reads' = Append(reads, SubSeq(wire, 1, n))
       /\ UNCHANGED <<dispatched, calls>>
  \/ \E t \in tasks :
       /\ OnData(t)
       /\ dispatched' = dispatched \o Routed(t)
       /\ UNCHANGED <<reads, calls>>
  \/ \E t \in tasks : HandleStream(t) /\ UNCHANGED <<history, calls>>
  \/ \E t \in tasks : HandleEnd(t) /\ UNCHANGED <<history, calls>>
  \/ OnClientClose /\ UNCHANGED <<history, calls>>

SpecFraming == InitTcp /\ [][NextFraming]_vars

\* connect() and tryConnect() of the TCP client, attempt by attempt, beside
\* the requests made on it.
NextConnect ==
  \/ \E api \in {"connect", "tryConnect"} : Connect(api) /\ UNCHANGED history
  \/ OnConnected /\ UNCHANGED history
  \/ \E error \in SocketErrors : OnConnectError(error) /\ UNCHANGED history
  \/ OnClientClose /\ UNCHANGED <<history, calls>>
  \/ \E call \in RequestInputs : Request(call[1], call[2], call[3]) /\ UNCHANGED <<history, calls>>
  \/ \E id \in 1..MaxRequests : OnTimeout(id) /\ UNCHANGED <<history, calls>>

SpecConnect == InitTcp /\ [][NextConnect]_vars

\* ---------------------------------------------------------------- properties
Issued == 1..messageIds
Settled(i) == reqs[i].outcome.state # "pending"
Range(s) == {s[k] : k \in 1..Len(s)}

RECURSIVE Concat(_)
Concat(chunks) == IF chunks = <<>> THEN <<>> ELSE Head(chunks) \o Concat(Tail(chunks))

\* C1, first part: once a Response is resolved or rejected its outcome never
\* changes.
C1_SettledOnce ==
  \A i \in Issued : Settled(i) => reqs'[i].outcome = reqs[i].outcome

\* C1, second part: a Response is resolved only with the data of a message
\* envelope that carries the request's own message id, and an envelope that
\* settles a request, either way, carries that request's id.
C1_MatchedById ==
  \A i \in Issued :
    LET o == reqs[i].outcome IN
    /\ o.state = "resolved" => o.by.type = "message" /\ o.by.id = i /\ o.data = o.by.data
    /\ o.by # NoEnv => o.by.id = i

\* C1: in every interleaving of requests, envelopes, timeouts and disconnects,
\* every Response is settled at most once and only by an envelope with its id.
C1_SettledOnceByOwnId == [](C1_MatchedById) /\ [][C1_SettledOnce]_vars

\* Two concurrent requests, answered in the opposite order, each resolved by
\* its own envelope.
C1_Witness ==
  /\ messageIds = 2
  /\ reqs[1].outcome.state = "resolved" /\ reqs[1].outcome.by.data = 2
  /\ reqs[2].outcome.state = "resolved" /\ reqs[2].outcome.by.data = 1

\* C2: when the connection goes down, every request still in the pending
\* table is rejected, so the table is empty when the close handler returns.
C2_DisconnectFailsPending ==
  [][isConnected /\ ~isConnected' => DOMAIN pending' = {}]_vars

\* C3: the disconnect handler rejects each of the K pending requests with a
\* ConnectionLostError carrying that request's route, and leaves the pending
\* table empty.
C3_DisconnectRejectsAll ==
  [][closeEmits' # closeEmits =>
       /\ DOMAIN pending' = {}
       /\ \A i \in DOMAIN pending :
            /\ reqs'[i].outcome.state = "rejected"
            /\ reqs'[i].outcome.kind = "ConnectionLostError"
            /\ reqs'[i].outcome.route = reqs[i].route]_vars

\* A disconnect with K = 2: two requests of different routes, one with a timer.
C3_Witness ==
  /\ closeEmits >= 1
  /\ messageIds = 2
  /\ \A i \in {1, 2} : reqs[i].outcome.kind = "ConnectionLostError"
  /\ reqs[1].outcome.route # reqs[2].outcome.route
  /\ \E i \in {1, 2} : reqs[i].timer = "cleared"

\* C4: a message id is allocated, and a pending entry added, only by a
\* request() made while the connection is Connected.
C4_RequestOnlyWhileConnected == \A i \in Issued : reqs[i].connected

\* C5: a timer that fires while its request is pending rejects the request
\* with a RequestTimeoutError carrying the request's route and its timeout T,
\* removes it from the pending table and closes its Stream.
C5_TimeoutRejects ==
  [][\A i \in Issued :
       reqs[i].timer = "armed" /\ reqs'[i].timer = "fired" /\ i \in DOMAIN pending =>
         /\ reqs'[i].outcome.state = "rejected"
         /\ reqs'[i].outcome.kind = "RequestTimeoutError"
         /\ reqs'[i].outcome.route = reqs[i].route
         /\ reqs'[i].outcome.ms = reqs[i].timeoutMs
         /\ reqs[i].timeoutMs # Null
         /\ i \notin DOMAIN pending'
         /\ reqs'[i].closed]_vars

\* A request that timed out.
C5_Witness ==
  \E i \in Issued :
    /\ reqs[i].timer = "fired"
    /\ reqs[i].outcome.kind = "RequestTimeoutError"
    /\ reqs[i].closed

\* C6: handling a message envelope whose id is not in the pending table
\* reports no error and changes neither the pending table nor any request's
\* Stream or outcome.
C6_UnknownMessageDropped ==
  [][\A t \in tasks :
       /\ t.kind = "handleEnd"
       /\ t \notin tasks'
       /\ IpcResponseValid(t.env)
       /\ t.env.id \notin DOMAIN pending
       => pending' = pending /\ reqs' = reqs /\ errors' = 0]_vars

\* A message envelope dropped after its request was rejected by timeout.
C6_Witness ==
  \E d \in ignored :
    /\ d.env.type = "message"
    /\ d.fate = "RequestTimeoutError"
    /\ reqs[d.env.id].outcome.kind = "RequestTimeoutError"

\* C7: handling a stream envelope whose request has settled reports no error
\* and appends to no Stream; the Stream of a settled request never changes.
C7_LateStreamDropped ==
  [][/\ \A t \in tasks :
          /\ t.kind = "handleStream"
          /\ t \notin tasks'
          /\ IpcStreamValid(t.env)
          /\ t.env.id \in Issued
          /\ Settled(t.env.id)
          => pending' = pending /\ reqs' = reqs /\ errors' = 0
     /\ \A i \in Issued : Settled(i) => reqs'[i].values = reqs[i].values]_vars

\* A stream envelope dropped after its request settled.
C7_Witness ==
  \E d \in ignored :
    /\ d.env.type = "stream"
    /\ d.env.id \in Issued
    /\ Settled(d.env.id)
    /\ reqs[d.env.id].closed

\* C8: for a request made on an established connection and answered on it,
\* the Stream of the resolved request holds exactly the data of the stream
\* envelopes the peer sent for it before the terminal message, in the order
\* sent.
C8_StreamBeforeTerminal ==
  \A i \in Issued :
    reqs[i].connected /\ reqs[i].outcome.state = "resolved" /\ connects = 1 =>
      LET Earlier(v) == v < reqs[i].outcome.data
      IN reqs[i].values = SelectSeq(streamed[i], Earlier)

\* No read is in flight and nothing is left to read.
Quiet == wire = <<>> /\ \A t \in tasks : t.kind # "onData"

RECURSIVE Dispatch(_)
\* What onData routes, in order, from the events of one read.
Dispatch(events) ==
  IF events = <<>> \/ ~JSONparses(Head(events)) THEN <<>>
  ELSE LET e == JSONparse(Head(events)) IN
       IF ~TcpResponseValid(e) THEN <<>>
       ELSE <<e.data>> \o (IF EmitThrows(e.type) THEN <<>> ELSE Dispatch(Tail(events)))

\* C9: the envelopes dispatched are those the same bytes yield when they
\* arrive in a single read, however the bytes were cut into reads.
C9_DispatchIndependentOfReads ==
  Quiet /\ reads # <<>> => dispatched = Dispatch(Split(Trim(Concat(reads))))

\* The well-formed envelopes among the frames of a byte stream.
WellFormed(bytes) ==
  {JSONparse(f) : f \in {g \in Range(Split(Trim(bytes))) :
                           JSONparses(g) /\ TcpResponseValid(JSONparse(g))}}

\* C10: when every read holds whole frames, every well-formed frame read is
\* dispatched, whatever malformed frames came before it (streams without an
\* 'error' notice, which ends a read by itself).
C10_MalformedFrameLosesNothing ==
  (/\ Quiet
   /\ reads # <<>>
   /\ \A k \in 1..Len(reads) : reads[k][Len(reads[k])] = Delimiter
   /\ \A e \in WellFormed(Concat(reads)) : e.type # "error")
  => \A e \in WellFormed(Concat(reads)) : e.data \in Range(dispatched)

\* C11: connect() rejects with ConnectionRefusedError when the socket reports
\* connection-refused or no-such-entity and with the original error otherwise;
\* tryConnect() returns true exactly when connect() succeeds, false exactly
\* when connect() fails with a ConnectionError, and throws every other failure.
C11_ConnectAndTryConnect ==
  LET r == returned IN
  r.call # "none" =>
    /\ r.connect = "resolved" <=> r.socket = "connect"
    /\ r.socket \in {"ECONNREFUSED", "ENOENT"} => r.connect = "ConnectionRefusedError"
    /\ r.socket \in SocketErrors \ {"ECONNREFUSED", "ENOENT"} => r.connect = r.socket
    /\ r.call = "connect" =>
         r.outcome = (IF r.socket = "connect" THEN "resolved" ELSE "rejected")
    /\ r.call = "tryConnect" =>
         /\ r.outcome = "true" <=> r.connect = "resolved"
         /\ r.outcome = "false" <=> r.connect = "ConnectionRefusedError"
         /\ r.outcome = "thrown" <=> r.connect \notin {"resolved", "ConnectionRefusedError"}

\* tryConnect() has returned false for a path that does not exist.
C11_Witness ==
  /\ returned.call = "tryConnect"
  /\ returned.socket = "ENOENT"
  /\ returned.outcome = "false"
  /\ ~isConnected

\* C12, in every state: the ids of the request() calls start at 1 and grow
\* from call to call, and each key of the pending table is an id in
\* 1..messageIds that exactly one call was given.
C12_IdsAllocatedOnce ==
  /\ reqs # <<>> => reqs[1].id = 1
  /\ \A j, k \in DOMAIN reqs : j < k => reqs[j].id < reqs[k].id
  /\ \A k \in DOMAIN reqs : reqs[k].id \in 1..messageIds
  /\ \A i \in DOMAIN pending :
       /\ i \in 1..messageIds
       /\ Cardinality({k \in DOMAIN reqs : reqs[k].id = i}) = 1

\* C12, in every step: the counter never decreases, and the step that
\* allocates an id is the step that inserts it into the pending table.
C12_AllocationInsertsAtOnce ==
  /\ messageIds' >= messageIds
  /\ Len(reqs') >= Len(reqs)
  /\ (messageIds' # messageIds \/ Len(reqs') # Len(reqs)) =>
       /\ messageIds' = messageIds + 1
       /\ Len(reqs') = Len(reqs) + 1
       /\ reqs'[Len(reqs')].id = messageIds'
       /\ messageIds' \in DOMAIN pending' \ DOMAIN pending

\* C12: message ids strictly increase from 1 across all request() calls and
\* are never reset by settlement, disconnect or reconnect; every pending key
\* was allocated to exactly one call, in the step that inserted it.
C12_MessageIdsIncrease == [](C12_IdsAllocatedOnce) /\ [][C12_AllocationInsertsAtOnce]_vars

\* A second request made after a disconnect and a reconnect gets id 2.
C12_Witness ==
  /\ connects = 2
  /\ closeEmits = 1
  /\ messageIds = 2
  /\ reqs[1].outcome.kind = "ConnectionLostError"
  /\ reqs[2].connected
  /\ DOMAIN pending = {2}

\* C13: in every state, a request whose Response has settled is absent from
\* the pending table, has its Stream closed and has no armed timer, and every
\* id in the pending table belongs to a request whose Response has not
\* settled and whose Stream is open.
C13_SettledIffAbsent ==
  /\ \A i \in Issued :
       Settled(i) => i \notin DOMAIN pending /\ reqs[i].closed /\ reqs[i].timer # "armed"
  /\ \A i \in DOMAIN pending :
       i \in Issued /\ ~Settled(i) /\ ~reqs[i].closed

\* One request settled by an answer that cancelled its timer, another pending.
C13_Witness ==
  /\ messageIds = 2
  /\ \E i \in {1, 2} :
       /\ reqs[i].outcome.state = "resolved"
       /\ reqs[i].timer = "cleared"
       /\ reqs[i].closed
       /\ DOMAIN pending = {1, 2} \ {i}

\* C14: whatever fires while a message handler is suspended between its
\* lookup of the pending record and its settling of it, the settle routine of
\* a request (resolveRequest or rejectRequest) runs at most once in all.
C14_SettleRoutineRunsOnce == \A i \in Issued : reqs[i].settles <= 1

\* The step completes the handler t.
Handled(t) == t \in tasks /\ t \notin tasks'

\* The step is the one in which the message handler of t comes to settle the
\* request it looked up: at once for a status that is no failure, after the
\* validation of the error body for one that is.
Settling(t) ==
  /\ Handled(t)
  /\ \/ t.kind = "handleEndError"
     \/ /\ t.kind = "handleEnd"
        /\ IpcResponseValid(t.env)
        /\ t.env.id \in DOMAIN pending
        /\ ~isResponseError(t.env.status)

\* The outcome the envelope of t calls for, and the one request leaving the table.
SettledAsCalledFor(t) ==
  LET id == t.env.id
      o == reqs'[id].outcome
  IN /\ o.by = t.env
     /\ IF ~isResponseError(t.env.status)
        THEN o.state = "resolved" /\ o.data = t.env.data
        ELSE /\ o.state = "rejected"
             /\ t.env.body = "error" => o.kind = "RequestError" /\ o.data = t.env.data
             /\ t.env.body = "invalid" => o.kind = "ValidationError"
             /\ t.env.body = "none" => o.kind = "raw" /\ o.data = t.env.data
     /\ id \in DOMAIN pending
     /\ pending' = [k \in DOMAIN pending \ {id} |-> pending[k]]

HandlesNotice ==
  \/ \E t \in tasks :
       /\ Handled(t)
       /\ \/ t.kind = "handleEnd" /\ ~IpcResponseValid(t.env)
          \/ t.kind = "handleStream" /\ ~IpcStreamValid(t.env)
          \/ t.kind = "onData" /\ t.env.type \notin {"message", "stream"}
  \/ connectionMode = "ipc" /\ peerSeq' # peerSeq /\ tasks' = tasks

\* C16: handling an envelope of kind error or malformedRequest, or a message
\* or stream envelope whose payload fails validation, reports on the error
\* channel and leaves the pending table and every request's Stream and
\* outcome as they were; no step that reports an error changes a request.
C16_NoticesChangeNoRequest ==
  [][/\ HandlesNotice => errors' >= 1 /\ pending' = pending /\ reqs' = reqs
     /\ errors' >= 1 => pending' = pending /\ reqs' = reqs]_vars

\* An error was reported while a request with a value in its Stream is pending.
C16_Witness ==
  /\ errors >= 1
  /\ \E i \in DOMAIN pending : reqs[i].values # <<>>

\* The step in which an established connection goes down.
Disconnects == isConnected /\ ~isConnected'

\* The disconnect detaches every handler and notifies onClose once.
UnwiresAndNotifies ==
  Disconnects =>
    /\ listeners' \cap ({"data", "close"} \cup RpcEvents) = {}
    /\ closeEmits' = closeEmits + 1

\* While the connection is down no envelope is handed to handleEnd or
\* handleStream, and onClose is not notified again.
QuietWhileDown ==
  ~isConnected /\ ~isConnected' =>
    /\ closeEmits' = closeEmits
    /\ \A t \in tasks' \ tasks : t.kind \notin {"handleEnd", "handleStream"}

\* C17: every disconnect of an established connection sets isConnected to
\* false, detaches the data and envelope handlers, so that no envelope is
\* dispatched to the multiplexer afterwards, and notifies onClose exactly once.
C17_DisconnectUnwiresAndNotifies == [][UnwiresAndNotifies /\ QuietWhileDown]_vars

\* C18: a request has a timer exactly when its effective timeout is not
\* null, the effective timeout being the timeoutMs given with the call, an
\* explicit null included, and null when none is given; a request whose
\* effective timeout is null is never rejected with a RequestTimeoutError.
C18_TimerIffTimeout ==
  \A k \in DOMAIN reqs :
    LET effective == IF reqs[k].options = Undefined THEN Null ELSE reqs[k].options
    IN /\ reqs[k].timer # "none" <=> effective # Null
       /\ reqs[k].timeoutMs = effective
       /\ effective = Null => reqs[k].outcome.kind # "RequestTimeoutError"

\* A request made without a timeout has no timer, and one made with 50 ms
\* has timed out.
C18_Witness ==
  \E i, j \in DOMAIN reqs :
    /\ reqs[i].options = Undefined
    /\ reqs[i].timer = "none"
    /\ reqs[j].options = "50"
    /\ reqs[j].outcome.kind = "RequestTimeoutError"

\* C19: each request() call has written exactly one frame, made when its
\* record was in the pending table; the frame is one message whose mid is the
\* key of that record and whose type and data are the route and the payload
\* the caller passed.
C19_OneFramePerRequest ==
  /\ Len(sent) = Len(reqs)
  /\ \A k \in DOMAIN sent :
       LET text == sent[k].text
           frames == Split(Trim(text))
           message == JSONparse(frames[1])
       IN /\ text[Len(text)] = Delimiter
          /\ Len(frames) = 1
          /\ JSONparses(frames[1])
          /\ message.type = "message"
          /\ message.data.mid = reqs[k].id
          /\ message.data.type = reqs[k].route
          /\ message.data.data = reqs[k].data
          /\ message.data.mid \in sent[k].pending

\* Two requests of different routes and payloads were sent, the first
\* answered since.
C19_Witness ==
  /\ Len(sent) = 2
  /\ reqs[1].route # reqs[2].route
  /\ reqs[1].data # reqs[2].data
  /\ reqs[1].outcome.state = "resolved"
  /\ sent[2].pending = {2}

====
